---- MODULE Spec2Model ----
(***************************************************************************)
(* Model of aliasmgr: the Config domain model, the core operations, the    *)
(* interactive handlers of src/app, the structured-format codec and the    *)
(* shell resynchronisation.                                                *)
(*                                                                         *)
(* An IndexMap is a sequence of [key, val] entries: insertion order is the *)
(* order of the sequence, insert of a present key replaces the value in    *)
(* place, shift_remove deletes and keeps the order of the rest.            *)
(***************************************************************************)
EXTENDS Integers, Sequences, FiniteSets, TLC

VARIABLES
    config,   \* the in-memory Config: [aliases, groups], two IndexMaps
    shell,    \* the ShellType of the invocation, "Bash" or "Zsh"
    live,     \* the aliases defined in the live shell: a set of [name, command]
    last,     \* the last completed operation: [op, res]
    steps     \* number of operations performed so far

vars == <<config, shell, live, last, steps>>

(***************************************************************************)
(* Bounds of the model.                                                    *)
(***************************************************************************)
\* operations performed through the handlers / through the core library
MaxOps == 2

MaxCoreOps == 3

AliasNames == {"a", "g"}
GroupNames == {"g", "h"}
Commands == {"c1", "c2"}
ShellTypes == {"Bash", "Zsh"}

\* Option::None of an alias's group
None == "None"

\* lexicographic order of the names used (str::cmp)
NameOrder == <<"a", "g", "h">>

NameRank(n) == CHOOSE i \in DOMAIN NameOrder : NameOrder[i] = n

NameLess(x, y) == NameRank(x) < NameRank(y)

(***************************************************************************)
(* IndexMap                                                                *)
(***************************************************************************)
Keys(m) == {m[i].key : i \in DOMAIN m}

ContainsKey(m, k) == k \in Keys(m)

IndexOf(m, k) == CHOOSE i \in DOMAIN m : m[i].key = k

Get(m, k) == m[IndexOf(m, k)].val

Insert(m, k, v) ==
    IF ContainsKey(m, k)
    THEN [m EXCEPT ![IndexOf(m, k)] = [key |-> k, val |-> v]]
    ELSE Append(m, [key |-> k, val |-> v])

ShiftRemove(m, k) == SelectSeq(m, LAMBDA e : e.key # k)

KeySeq(m) == [i \in DOMAIN m |-> m[i].key]

(***************************************************************************)
(* Domain model (src/config/types.rs)                                      *)
(***************************************************************************)
AliasNew(command, group, enabled, global) ==
    [command |-> command, group |-> group, enabled |-> enabled,
     detailed |-> (~enabled) \/ global, global |-> global]

ConfigNew == [aliases |-> <<>>, groups |-> <<>>]

(***************************************************************************)
(* Outcome / Failure (src/core/mod.rs).  The text of a Command is kept as  *)
(* the sequence of its shell statements.                                   *)
(***************************************************************************)
Command(stmts) == [kind |-> "Command", err |-> "", cmd |-> stmts]

ConfigChanged == [kind |-> "ConfigChanged", err |-> "", cmd |-> <<>>]

NoChanges == [kind |-> "NoChanges", err |-> "", cmd |-> <<>>]

Failure(e) == [kind |-> "Err", err |-> e, cmd |-> <<>>]

\* a failed expect/unwrap/index: the process aborts
Panic(what) == [kind |-> "Panic", err |-> what, cmd |-> <<>>]

Ret(cfg, res) == [config |-> cfg, res |-> res]

IsOk(r) == r.res.kind \in {"Command", "ConfigChanged", "NoChanges"}

\* alias name='command'   /   alias -g -- 'name'='command'
add_alias_str(name, alias) ==
    [op |-> "alias", name |-> name, command |-> alias.command, global |-> alias.global]

unalias_str(name) ==
    [op |-> "unalias", name |-> name, command |-> "", global |-> FALSE]

unalias_all_str ==
    [op |-> "unalias -a", name |-> "", command |-> "", global |-> FALSE]

(***************************************************************************)
(* Listing helpers (src/core/list.rs)                                      *)
(***************************************************************************)
\* the names of the aliases of one scope, in Config order
AliasesWithGroup(cfg, group) ==
    KeySeq(SelectSeq(cfg.aliases, LAMBDA e : e.val.group = group))

\* get_single_group: [ok, names]; a named group must exist
get_single_group(cfg, group) ==
    IF group # None /\ ~ContainsKey(cfg.groups, group)
    THEN [ok |-> FALSE, names |-> <<>>]
    ELSE [ok |-> TRUE, names |-> AliasesWithGroup(cfg, group)]

\* get_all_groups pushes every alias under its group's key and expects the key
HasDanglingGroup(cfg) ==
    \E i \in DOMAIN cfg.aliases :
        /\ cfg.aliases[i].val.group # None
        /\ ~ContainsKey(cfg.groups, cfg.aliases[i].val.group)

(***************************************************************************)
(* Core operations (src/core).  Each returns [config, res].                *)
(***************************************************************************)
\* variant: checks the group before the name
add_alias_group_first(cfg, name, alias) ==
    IF alias.group # None /\ ~ContainsKey(cfg.groups, alias.group)
    THEN Ret(cfg, Failure("GroupDoesNotExist"))
    ELSE IF ContainsKey(cfg.aliases, name)
    THEN Ret(cfg, Failure("AliasAlreadyExists"))
    ELSE Ret([cfg EXCEPT !.aliases = Insert(@, name, alias)],
             Command(<<add_alias_str(name, alias)>>))

add_alias(cfg, name, alias) ==
    IF ContainsKey(cfg.aliases, name)
    THEN Ret(cfg, Failure("AliasAlreadyExists"))
    ELSE IF alias.group # None /\ ~ContainsKey(cfg.groups, alias.group)
    THEN Ret(cfg, Failure("GroupDoesNotExist"))
    ELSE Ret([cfg EXCEPT !.aliases = Insert(@, name, alias)],
             Command(<<add_alias_str(name, alias)>>))

add_group_to_config(cfg, group, enabled) ==
    IF ContainsKey(cfg.groups, group)
    THEN Ret(cfg, Failure("GroupAlreadyExists"))
    ELSE Ret([cfg EXCEPT !.groups = Insert(@, group, enabled)], ConfigChanged)

\* or_else: "Group already exists. No changes made." and Ok(NoChanges)
add_group(cfg, name, enabled) ==
    LET r == add_group_to_config(cfg, name, enabled)
    IN  IF r.res.kind = "Err" /\ r.res.err = "GroupAlreadyExists"
        THEN Ret(cfg, NoChanges)
        ELSE r

\* edit_alias as handle_overwrite_existing_alias calls it: replaces the command
edit_alias_command(cfg, name, new_command) ==
    IF ~ContainsKey(cfg.aliases, name)
    THEN Ret(cfg, Failure("AliasDoesNotExist"))
    ELSE LET new == [Get(cfg.aliases, name) EXCEPT !.command = new_command]
         IN  Ret([cfg EXCEPT !.aliases = Insert(@, name, new)],
                 Command(<<add_alias_str(name, new)>>))

\* edit_alias as handle_edit calls it: replaces the alias wholesale
\* variant: takes the command of the new alias and keeps the other fields
edit_alias_command_only(cfg, name, new_alias) ==
    edit_alias_command(cfg, name, new_alias.command)

edit_alias(cfg, name, new_alias) ==
    IF ~ContainsKey(cfg.aliases, name)
    THEN Ret(cfg, Failure("AliasDoesNotExist"))
    ELSE Ret([cfg EXCEPT !.aliases = Insert(@, name, new_alias)],
             Command(<<add_alias_str(name, new_alias)>>))

\* variant: assigns the group before checking that it exists
move_alias_write_first(cfg, alias, new_group) ==
    IF ~ContainsKey(cfg.aliases, alias)
    THEN Ret(cfg, Failure("AliasDoesNotExist"))
    ELSE LET new == [cfg EXCEPT !.aliases =
                        Insert(@, alias, [Get(cfg.aliases, alias) EXCEPT !.group = new_group])]
         IN  IF new_group # None /\ ~ContainsKey(cfg.groups, new_group)
             THEN Ret(new, Failure("GroupDoesNotExist"))
             ELSE Ret(new, ConfigChanged)

move_alias(cfg, alias, new_group) ==
    IF ~ContainsKey(cfg.aliases, alias)
    THEN Ret(cfg, Failure("AliasDoesNotExist"))
    ELSE IF new_group # None /\ ~ContainsKey(cfg.groups, new_group)
    THEN Ret(cfg, Failure("GroupDoesNotExist"))
    ELSE Ret([cfg EXCEPT !.aliases =
                  Insert(@, alias, [Get(cfg.aliases, alias) EXCEPT !.group = new_group])],
             ConfigChanged)

\* variant: removes the first alias of the map instead of the named one
remove_alias_first(cfg, name) ==
    IF ContainsKey(cfg.aliases, name)
    THEN Ret([cfg EXCEPT !.aliases = Tail(@)], Command(<<unalias_str(name)>>))
    ELSE Ret(cfg, Failure("AliasDoesNotExist"))

\* variant: swap_remove, the last entry takes the place of the removed one
remove_alias_swap(cfg, name) ==
    IF ContainsKey(cfg.aliases, name)
    THEN LET i == IndexOf(cfg.aliases, name)
             n == Len(cfg.aliases)
             swapped == [j \in 1..(n - 1) |-> IF j = i THEN cfg.aliases[n] ELSE cfg.aliases[j]]
         IN  Ret([cfg EXCEPT !.aliases = swapped], Command(<<unalias_str(name)>>))
    ELSE Ret(cfg, Failure("AliasDoesNotExist"))

remove_alias(cfg, name) ==
    IF ContainsKey(cfg.aliases, name)
    THEN Ret([cfg EXCEPT !.aliases = ShiftRemove(@, name)], Command(<<unalias_str(name)>>))
    ELSE Ret(cfg, Failure("AliasDoesNotExist"))

remove_all_aliases(cfg) ==
    Ret([cfg EXCEPT !.aliases = <<>>], Command(<<unalias_all_str>>))

remove_all_groups(cfg) ==
    Ret([cfg EXCEPT !.groups = <<>>], ConfigChanged)

remove_all(cfg) == remove_all_aliases(remove_all_groups(cfg).config)

\* removes the names in turn; the first failure returns, keeping the removals done
RECURSIVE remove_aliases_from(_, _, _)
remove_aliases_from(cfg, names, stmts) ==
    IF names = <<>>
    THEN Ret(cfg, Command(stmts))
    ELSE LET r == remove_alias(cfg, Head(names))
         IN  IF r.res.kind = "Err"
             THEN r
             ELSE remove_aliases_from(r.config, Tail(names), stmts \o r.res.cmd)

remove_aliases(cfg, names) == remove_aliases_from(cfg, names, <<>>)

\* variant: removing the group also takes its members out of it
remove_group_ungroup(cfg, name) ==
    IF ContainsKey(cfg.groups, name)
    THEN Ret([aliases |-> [i \in DOMAIN cfg.aliases |->
                              IF cfg.aliases[i].val.group = name
                              THEN [cfg.aliases[i] EXCEPT !.val.group = None]
                              ELSE cfg.aliases[i]],
              groups |-> ShiftRemove(cfg.groups, name)],
             ConfigChanged)
    ELSE Ret(cfg, Failure("GroupDoesNotExist"))

remove_group(cfg, name) ==
    IF ContainsKey(cfg.groups, name)
    THEN Ret([cfg EXCEPT !.groups = ShiftRemove(@, name)], ConfigChanged)
    ELSE Ret(cfg, Failure("GroupDoesNotExist"))

\* variant: re-creates the alias from its command, group, enabled and global
rename_alias_rebuilt(cfg, old_alias, new_alias) ==
    IF ~ContainsKey(cfg.aliases, old_alias)
    THEN Ret(cfg, Failure("AliasDoesNotExist"))
    ELSE IF ContainsKey(cfg.aliases, new_alias)
    THEN Ret(cfg, Failure("AliasAlreadyExists"))
    ELSE LET alias == Get(cfg.aliases, old_alias)
             r1 == remove_alias(cfg, old_alias)
             r2 == add_alias(r1.config, new_alias,
                             AliasNew(alias.command, alias.group, alias.enabled, alias.global))
         IN  IF r2.res.kind = "Err"
             THEN r2
             ELSE Ret(r2.config, Command(r1.res.cmd \o r2.res.cmd))

rename_alias(cfg, old_alias, new_alias) ==
    IF ~ContainsKey(cfg.aliases, old_alias)
    THEN Ret(cfg, Failure("AliasDoesNotExist"))
    ELSE IF ContainsKey(cfg.aliases, new_alias)
    THEN Ret(cfg, Failure("AliasAlreadyExists"))
    ELSE LET alias == Get(cfg.aliases, old_alias)
             r1 == remove_alias(cfg, old_alias)
             r2 == add_alias(r1.config, new_alias, alias)
         IN  IF r2.res.kind = "Err"
             THEN r2
             ELSE Ret(r2.config, Command(r1.res.cmd \o r2.res.cmd))

\* variant: renames the key and leaves the members pointing at the old name
rename_group_stale(cfg, old_group, new_group) ==
    IF ~ContainsKey(cfg.groups, old_group)
    THEN Ret(cfg, Failure("GroupDoesNotExist"))
    ELSE IF ContainsKey(cfg.groups, new_group)
    THEN Ret(cfg, Failure("GroupAlreadyExists"))
    ELSE Ret([cfg EXCEPT !.groups =
                  Insert(ShiftRemove(@, old_group), new_group, Get(cfg.groups, old_group))],
             ConfigChanged)

\* variant: the renamed group starts enabled whatever the old flag was
rename_group_enabled(cfg, old_group, new_group) ==
    IF ~ContainsKey(cfg.groups, old_group)
    THEN Ret(cfg, Failure("GroupDoesNotExist"))
    ELSE IF ContainsKey(cfg.groups, new_group)
    THEN Ret(cfg, Failure("GroupAlreadyExists"))
    ELSE LET groups == Insert(ShiftRemove(cfg.groups, old_group), new_group, TRUE)
             aliases == [i \in DOMAIN cfg.aliases |->
                            IF cfg.aliases[i].val.group = old_group
                            THEN [cfg.aliases[i] EXCEPT !.val.group = new_group]
                            ELSE cfg.aliases[i]]
         IN  Ret([aliases |-> aliases, groups |-> groups], ConfigChanged)

rename_group(cfg, old_group, new_group) ==
    IF ~ContainsKey(cfg.groups, old_group)
    THEN Ret(cfg, Failure("GroupDoesNotExist"))
    ELSE IF ContainsKey(cfg.groups, new_group)
    THEN Ret(cfg, Failure("GroupAlreadyExists"))
    ELSE LET enabled == Get(cfg.groups, old_group)
             groups == Insert(ShiftRemove(cfg.groups, old_group), new_group, enabled)
             aliases == [i \in DOMAIN cfg.aliases |->
                            IF cfg.aliases[i].val.group = old_group
                            THEN [cfg.aliases[i] EXCEPT !.val.group = new_group]
                            ELSE cfg.aliases[i]]
         IN  Ret([aliases |-> aliases, groups |-> groups], ConfigChanged)

enable_alias(cfg, name) ==
    IF ~ContainsKey(cfg.aliases, name)
    THEN Ret(cfg, Failure("AliasDoesNotExist"))
    ELSE LET alias == [Get(cfg.aliases, name) EXCEPT !.enabled = TRUE]
             new == [cfg EXCEPT !.aliases = Insert(@, name, alias)]
         IN  IF alias.group # None /\ ~ContainsKey(cfg.groups, alias.group)
             THEN Ret(new, Panic("config.groups[group]"))
             ELSE IF alias.group # None /\ ~Get(cfg.groups, alias.group)
             THEN Ret(new, ConfigChanged)
             ELSE Ret(new, Command(<<add_alias_str(name, alias)>>))

\* the names of the members of a group, in Config order
get_aliases_from_single_group(cfg, name) == AliasesWithGroup(cfg, name)

\* the members of the group whose own enabled flag is set (retain)
EnabledMembers(cfg, name) ==
    SelectSeq(get_aliases_from_single_group(cfg, name),
              LAMBDA n : Get(cfg.aliases, n).enabled)

\* variant: no retain, a statement for every member of the group
enable_group_all_members(cfg, name) ==
    IF ~ContainsKey(cfg.groups, name)
    THEN Ret(cfg, Failure("GroupDoesNotExist"))
    ELSE LET new == [cfg EXCEPT !.groups = Insert(@, name, TRUE)]
             members == get_aliases_from_single_group(new, name)
         IN  IF members = <<>>
             THEN Ret(new, ConfigChanged)
             ELSE Ret(new, Command([i \in DOMAIN members |->
                                      add_alias_str(members[i], Get(new.aliases, members[i]))]))

enable_group(cfg, name) ==
    IF ~ContainsKey(cfg.groups, name)
    THEN Ret(cfg, Failure("GroupDoesNotExist"))
    ELSE LET new == [cfg EXCEPT !.groups = Insert(@, name, TRUE)]
             members == EnabledMembers(new, name)
         IN  IF members = <<>>
             THEN Ret(new, ConfigChanged)
             ELSE Ret(new, Command([i \in DOMAIN members |->
                                      add_alias_str(members[i], Get(new.aliases, members[i]))]))

disable_alias(cfg, name) ==
    IF ~ContainsKey(cfg.aliases, name)
    THEN Ret(cfg, Failure("AliasDoesNotExist"))
    ELSE IF ~Get(cfg.aliases, name).enabled
    THEN Ret(cfg, NoChanges)
    ELSE LET alias == [Get(cfg.aliases, name) EXCEPT !.enabled = FALSE]
             new == [cfg EXCEPT !.aliases = Insert(@, name, alias)]
         IN  IF alias.group # None /\ ~ContainsKey(cfg.groups, alias.group)
             THEN Ret(new, Panic("config.groups[group]"))
             ELSE IF alias.group # None /\ ~Get(cfg.groups, alias.group)
             THEN Ret(new, ConfigChanged)
             ELSE Ret(new, Command(<<unalias_str(name)>>))

\* variant: no retain, a statement for every member of the group
disable_group_all_members(cfg, name) ==
    IF ~ContainsKey(cfg.groups, name)
    THEN Ret(cfg, Failure("GroupDoesNotExist"))
    ELSE IF ~Get(cfg.groups, name)
    THEN Ret(cfg, NoChanges)
    ELSE LET new == [cfg EXCEPT !.groups = Insert(@, name, FALSE)]
             members == get_aliases_from_single_group(new, name)
         IN  IF members = <<>>
             THEN Ret(new, ConfigChanged)
             ELSE Ret(new, Command([i \in DOMAIN members |-> unalias_str(members[i])]))

disable_group(cfg, name) ==
    IF ~ContainsKey(cfg.groups, name)
    THEN Ret(cfg, Failure("GroupDoesNotExist"))
    ELSE IF ~Get(cfg.groups, name)
    THEN Ret(cfg, NoChanges)
    ELSE LET new == [cfg EXCEPT !.groups = Insert(@, name, FALSE)]
             members == EnabledMembers(new, name)
         IN  IF members = <<>>
             THEN Ret(new, ConfigChanged)
             ELSE Ret(new, Command([i \in DOMAIN members |-> unalias_str(members[i])]))

(***************************************************************************)
(* Sorting (src/core/sort.rs).  IndexMap::sort_by / sort_keys are the      *)
(* stable slice sort, an insertion sort for maps this small: each entry in *)
(* turn moves left past the neighbours it compares Less than.              *)
(***************************************************************************)
\* the comparator's "Less": by key for sort_keys (scope.keys), else the closure
\* of sort_aliases_in_group for the group scope.group
SortLess(scope, x, y) ==
    IF scope.keys
    THEN NameLess(x.key, y.key)
    ELSE /\ x.val.group = y.val.group
         /\ x.val.group = scope.group
         /\ NameLess(x.key, y.key)

RECURSIVE InsertTail(_, _, _)
InsertTail(scope, sorted, x) ==
    IF sorted = <<>>
    THEN <<x>>
    ELSE IF SortLess(scope, x, sorted[Len(sorted)])
    THEN Append(InsertTail(scope, SubSeq(sorted, 1, Len(sorted) - 1), x),
                sorted[Len(sorted)])
    ELSE Append(sorted, x)

RECURSIVE InsertionSort(_, _, _)
InsertionSort(scope, sorted, rest) ==
    IF rest = <<>>
    THEN sorted
    ELSE InsertionSort(scope, InsertTail(scope, sorted, Head(rest)), Tail(rest))

\* variant: orders the whole alias map by name
sort_aliases_in_group_all(cfg, group) ==
    IF group # None /\ ~ContainsKey(cfg.groups, group)
    THEN Ret(cfg, Failure("GroupDoesNotExist"))
    ELSE Ret([cfg EXCEPT !.aliases = InsertionSort([keys |-> TRUE, group |-> group], <<>>, @)],
             ConfigChanged)

sort_aliases_in_group(cfg, group) ==
    IF group # None /\ ~ContainsKey(cfg.groups, group)
    THEN Ret(cfg, Failure("GroupDoesNotExist"))
    ELSE Ret([cfg EXCEPT !.aliases = InsertionSort([keys |-> FALSE, group |-> group], <<>>, @)],
             ConfigChanged)

sort_groups(cfg) ==
    Ret([cfg EXCEPT !.groups = InsertionSort([keys |-> TRUE, group |-> None], <<>>, @)], ConfigChanged)

sort_all_aliases(cfg) ==
    Ret([cfg EXCEPT !.aliases = InsertionSort([keys |-> TRUE, group |-> None], <<>>, @)], ConfigChanged)

(***************************************************************************)
(* Structured-format codec (src/config/spec.rs).  A spec entry is          *)
(* [key, val] with val = [kind, command, enabled, aliases]; kind is        *)
(* "Simple", "Detailed" or "Group"; AliasSpec carries command and enabled. *)
(***************************************************************************)
Simple(command) ==
    [kind |-> "Simple", command |-> command, enabled |-> TRUE, aliases |-> <<>>]

Detailed(command, enabled) ==
    [kind |-> "Detailed", command |-> command, enabled |-> enabled, aliases |-> <<>>]

Group(enabled, aliases) ==
    [kind |-> "Group", command |-> "", enabled |-> enabled, aliases |-> aliases]

convert_alias_to_spec(alias) ==
    IF ~alias.detailed
    THEN Simple(alias.command)
    ELSE Detailed(alias.command, alias.enabled)

\* group = None: the aliases that belong to no present group (top-level entries);
\* otherwise the aliases of that group; converted and inserted in Config order
RECURSIVE InsertAliasSpecs(_, _, _, _)
InsertAliasSpecs(entries, aliases, groups, group) ==
    IF aliases = <<>>
    THEN entries
    ELSE LET e == Head(aliases)
             skip == IF group = None
                     THEN e.val.group # None /\ ContainsKey(groups, e.val.group)
                     ELSE e.val.group # group
         IN  InsertAliasSpecs(
                 IF skip THEN entries ELSE Insert(entries, e.key, convert_alias_to_spec(e.val)),
                 Tail(aliases), groups, group)

convert_group_to_spec(group_name, enabled, aliases) ==
    Group(enabled, InsertAliasSpecs(<<>>, aliases, <<>>, group_name))

RECURSIVE InsertGroupSpecs(_, _, _)
InsertGroupSpecs(entries, groups, aliases) ==
    IF groups = <<>>
    THEN entries
    ELSE InsertGroupSpecs(
             Insert(entries, Head(groups).key,
                    convert_group_to_spec(Head(groups).key, Head(groups).val, aliases)),
             Tail(groups), aliases)

convert_config_to_spec(cfg) ==
    InsertGroupSpecs(InsertAliasSpecs(<<>>, cfg.aliases, cfg.groups, None),
                     cfg.groups, cfg.aliases)

\* Simple: enabled, not detailed; Detailed: the stored enabled, detailed.
\* AliasSpec has no global field: the decoded alias is not global.
convert_spec_to_alias(spec, group) ==
    IF spec.kind = "Simple"
    THEN [command |-> spec.command, group |-> group, enabled |-> TRUE,
          detailed |-> FALSE, global |-> FALSE]
    ELSE [command |-> spec.command, group |-> group, enabled |-> spec.enabled,
          detailed |-> TRUE, global |-> FALSE]

RECURSIVE InsertDecodedAliases(_, _, _)
InsertDecodedAliases(aliases, entries, group) ==
    IF entries = <<>>
    THEN aliases
    ELSE InsertDecodedAliases(
             Insert(aliases, Head(entries).key, convert_spec_to_alias(Head(entries).val, group)),
             Tail(entries), group)

RECURSIVE DecodeEntries(_, _)
DecodeEntries(cfg, entries) ==
    IF entries = <<>>
    THEN cfg
    ELSE LET e == Head(entries)
         IN  DecodeEntries(
                 IF e.val.kind = "Group"
                 THEN [aliases |-> InsertDecodedAliases(cfg.aliases, e.val.aliases, e.key),
                       groups |-> Insert(cfg.groups, e.key, e.val.enabled)]
                 ELSE [cfg EXCEPT !.aliases =
                           Insert(@, e.key, convert_spec_to_alias(e.val, None))],
                 Tail(entries))

\* variant: a group entry inside a group entry is decoded like an alias entry
HasNestedGroup_decoded(spec) == FALSE

\* a group entry inside a group entry: panic!("nested groups are not supported")
HasNestedGroup(spec) ==
    \E i \in DOMAIN spec :
        /\ spec[i].val.kind = "Group"
        /\ \E j \in DOMAIN spec[i].val.aliases : spec[i].val.aliases[j].val.kind = "Group"

convert_spec_to_config(spec) ==
    IF HasNestedGroup(spec)
    THEN [panicked |-> TRUE, config |-> ConfigNew]
    ELSE [panicked |-> FALSE, config |-> DecodeEntries(ConfigNew, spec)]

\* src/config/io.rs: the TOML item save_config writes for one alias
build_alias_item(alias) ==
    IF ~alias.detailed /\ alias.enabled
    THEN Simple(alias.command)
    ELSE Detailed(alias.command, alias.enabled)

(***************************************************************************)
(* Shell resynchronisation (src/core/sync.rs)                              *)
(***************************************************************************)
\* variant: the groups first, the ungrouped aliases last
get_all_aliases_grouped_groups_first(cfg) ==
    LET scopes == KeySeq(cfg.groups) \o <<None>>
    IN  [i \in DOMAIN scopes |->
            [group |-> scopes[i], aliases |-> AliasesWithGroup(cfg, scopes[i])]]

\* the scopes in listing order: the ungrouped aliases, then every group
get_all_aliases_grouped(cfg) ==
    LET scopes == <<None>> \o KeySeq(cfg.groups)
    IN  [i \in DOMAIN scopes |->
            [group |-> scopes[i], aliases |-> AliasesWithGroup(cfg, scopes[i])]]

RECURSIVE SyncStatements(_, _)
SyncStatements(cfg, grouped) ==
    IF grouped = <<>>
    THEN <<>>
    ELSE LET g == Head(grouped)
             on == IF g.group = None THEN TRUE ELSE Get(cfg.groups, g.group)
             names == SelectSeq(g.aliases, LAMBDA n : Get(cfg.aliases, n).enabled)
         IN  (IF on
              THEN [i \in DOMAIN names |-> add_alias_str(names[i], Get(cfg.aliases, names[i]))]
              ELSE <<>>) \o SyncStatements(cfg, Tail(grouped))

\* get_all_groups expects every alias's group among the keys: a panic otherwise
generate_alias_script_content(cfg) ==
    IF HasDanglingGroup(cfg)
    THEN [panicked |-> TRUE, text |-> <<>>]
    ELSE [panicked |-> FALSE,
          text |-> <<unalias_all_str>> \o SyncStatements(cfg, get_all_aliases_grouped(cfg))]

(***************************************************************************)
(* The cooperating shell: evaluates the statements it is sent.             *)
(***************************************************************************)
ShellEval(defs, stmt) ==
    IF stmt.op = "unalias -a"
    THEN {}
    ELSE IF stmt.op = "unalias"
    THEN {d \in defs : d.name # stmt.name}
    ELSE {d \in defs : d.name # stmt.name}
             \cup {[name |-> stmt.name, command |-> stmt.command]}

RECURSIVE ShellApply(_, _)
ShellApply(defs, stmts) ==
    IF stmts = <<>>
    THEN defs
    ELSE ShellApply(ShellEval(defs, Head(stmts)), Tail(stmts))

(***************************************************************************)
(* Interactive handlers (src/app).  The confirmation closures are the      *)
(* booleans overwrite / create_group: the answer given if the prompt is    *)
(* reached.                                                                *)
(***************************************************************************)
\* Option<Option<String>> of EditCommand.group: the argument was not given
NotGiven == "NotGiven"

\* one name with white space, one with an equal sign
InvalidNames == {"a b", "a=b"}

is_valid_alias_name(name) == name \notin InvalidNames

\* variant: creates the group whatever the answer
handle_create_non_existent_group_always(cfg, name, create_group) ==
    add_group(cfg, name, TRUE)

handle_create_non_existent_group(cfg, name, create_group) ==
    IF create_group
    THEN add_group(cfg, name, TRUE)
    ELSE Ret(cfg, NoChanges)

handle_overwrite_existing_alias(cfg, name, alias, overwrite, create_group) ==
    IF ~overwrite
    THEN Ret(cfg, NoChanges)
    ELSE LET old_group == IF ContainsKey(cfg.aliases, name)
                          THEN Get(cfg.aliases, name).group
                          ELSE None
             m1 == move_alias(cfg, name, alias.group)
             missing == alias.group # old_group /\ m1.res.err = "GroupDoesNotExist"
             g == handle_create_non_existent_group(cfg, alias.group, create_group)
             m2 == move_alias(g.config, name, alias.group)
             \* the Config after the move step, and the error it returned early with
             moved == IF alias.group = old_group THEN Ret(cfg, ConfigChanged)
                      ELSE IF ~missing THEN Ret(m1.config, ConfigChanged)
                      ELSE IF g.res.kind = "Err" THEN g
                      ELSE m2
         IN  IF moved.res.kind = "Err"
             THEN moved
             ELSE LET e == edit_alias_command(moved.config, name, alias.command)
                  IN  IF e.res.kind = "Err"
                      THEN e
                      ELSE Ret([e.config EXCEPT !.aliases =
                                    Insert(@, name, [Get(e.config.aliases, name) EXCEPT
                                                        !.enabled = alias.enabled,
                                                        !.global = alias.global])],
                               e.res)

\* variant: creates the missing group and does not retry the add
handle_add_alias_no_retry(cfg, name, alias, overwrite, create_group) ==
    LET r == add_alias(cfg, name, alias)
    IN  IF IsOk(r)
        THEN r
        ELSE IF r.res.err = "AliasAlreadyExists"
        THEN handle_overwrite_existing_alias(cfg, name, alias, overwrite, create_group)
        ELSE handle_create_non_existent_group(cfg, alias.group, create_group)

handle_add_alias(cfg, name, alias, overwrite, create_group) ==
    LET r == add_alias(cfg, name, alias)
    IN  IF IsOk(r)
        THEN r
        ELSE IF r.res.err = "AliasAlreadyExists"
        THEN handle_overwrite_existing_alias(cfg, name, alias, overwrite, create_group)
        ELSE LET g == handle_create_non_existent_group(cfg, alias.group, create_group)
             IN  IF g.res.kind = "ConfigChanged"
                 THEN LET r2 == add_alias(g.config, name, alias)
                      IN  IF r2.res.kind = "Err" THEN r2 ELSE Ret(r2.config, ConfigChanged)
                 ELSE IF g.res.kind = "NoChanges"
                 THEN Ret(cfg, NoChanges)
                 ELSE Ret(g.config, Panic("Unexpected error encountered"))

\* AddTarget::Alias
\* variant: adds first and rejects the request afterwards
handle_add_checks_last(cfg, name, command, group, disabled, global, sh, overwrite, create_group) ==
    LET r == handle_add_alias(cfg, name, AliasNew(command, group, ~disabled, global),
                              overwrite, create_group)
    IN  IF global /\ sh # "Zsh"
        THEN Ret(r.config, Failure("UnsupportedGlobalAlias"))
        ELSE IF ~is_valid_alias_name(name)
        THEN Ret(r.config, Failure("InvalidAliasName"))
        ELSE r

handle_add(cfg, name, command, group, disabled, global, sh, overwrite, create_group) ==
    IF global /\ sh # "Zsh"
    THEN Ret(cfg, Failure("UnsupportedGlobalAlias"))
    ELSE IF ~is_valid_alias_name(name)
    THEN Ret(cfg, Failure("InvalidAliasName"))
    ELSE handle_add_alias(cfg, name, AliasNew(command, group, ~disabled, global),
                          overwrite, create_group)

\* AddTarget::Group
handle_add_group(cfg, name, disabled) == add_group(cfg, name, ~disabled)

\* variant: creates the group before asking, and keeps it on decline
handle_non_existing_group_eager(cfg, alias, group, create_group) ==
    LET g == add_group(cfg, group, TRUE)
    IN  IF g.res.kind = "Err" THEN g
        ELSE IF create_group THEN move_alias(g.config, alias, group)
        ELSE Ret(g.config, NoChanges)

handle_non_existing_group(cfg, alias, group, create_group) ==
    IF create_group
    THEN LET g == add_group(cfg, group, TRUE)
         IN  IF g.res.kind = "Err" THEN g ELSE move_alias(g.config, alias, group)
    ELSE Ret(cfg, NoChanges)

handle_move(cfg, name, new_group, create_group) ==
    LET r == move_alias(cfg, name, new_group)
    IN  IF r.res.err = "GroupDoesNotExist"
        THEN handle_non_existing_group(cfg, name, new_group, create_group)
        ELSE r

\* app/edit.rs: inserts the group on acceptance, fails on decline
\* variant: accepts without inserting the group
handle_nonexistent_group_skip(cfg, group_name, create_group) ==
    IF create_group
    THEN Ret(cfg, ConfigChanged)
    ELSE Ret(cfg, Failure("GroupDoesNotExist"))

handle_nonexistent_group(cfg, group_name, create_group) ==
    IF create_group
    THEN Ret([cfg EXCEPT !.groups = Insert(@, group_name, TRUE)], ConfigChanged)
    ELSE Ret(cfg, Failure("GroupDoesNotExist"))

handle_edit(cfg, name, new_command, toggle_enable, toggle_global, group, create_group) ==
    IF ~ContainsKey(cfg.aliases, name)
    THEN edit_alias(cfg, name, AliasNew("", None, TRUE, FALSE))
    ELSE LET old_alias == Get(cfg.aliases, name)
             toggled == [old_alias EXCEPT
                            !.command = new_command,
                            !.enabled = IF toggle_enable THEN ~old_alias.enabled ELSE @,
                            !.global = IF toggle_global THEN ~old_alias.global ELSE @]
             g == IF group \notin {NotGiven, None} /\ ~ContainsKey(cfg.groups, group)
                  THEN handle_nonexistent_group(cfg, group, create_group)
                  ELSE Ret(cfg, ConfigChanged)
             new_alias == IF group = NotGiven THEN toggled ELSE [toggled EXCEPT !.group = group]
         IN  IF g.res.kind = "Err"
             THEN g
             ELSE edit_alias(g.config, name, new_alias)

(***************************************************************************)
(* What the handlers with a recovery path call, in order: the              *)
(* confirmations they invoke and the core operations they run, each with   *)
(* whether it returned Ok (a confirmation: whether it was accepted).       *)
(***************************************************************************)
Call(what, r) == [call |-> what, ok |-> IsOk(r)]

Prompt(what, answer) == [call |-> what, ok |-> answer]

\* the caller evaluates create_group(&group) for the argument, then the body runs
handle_create_non_existent_group_calls(cfg, name, create_group) ==
    <<Prompt("prompt_create_non_existent_group", create_group)>>
        \o (IF create_group THEN <<Call("add_group", add_group(cfg, name, TRUE))>> ELSE <<>>)

\* variant: asks for the group again when the retried move fails
handle_overwrite_existing_alias_calls_again(cfg, name, alias, overwrite, create_group) ==
    IF ~overwrite
    THEN <<>>
    ELSE LET old_group == IF ContainsKey(cfg.aliases, name)
                          THEN Get(cfg.aliases, name).group
                          ELSE None
             m1 == move_alias(cfg, name, alias.group)
             g == handle_create_non_existent_group(cfg, alias.group, create_group)
             m2 == move_alias(g.config, name, alias.group)
         IN  IF alias.group = old_group
             THEN <<Call("edit_alias", edit_alias_command(cfg, name, alias.command))>>
             ELSE IF m1.res.err # "GroupDoesNotExist"
             THEN <<Call("move_alias", m1),
                    Call("edit_alias", edit_alias_command(m1.config, name, alias.command))>>
             ELSE <<Call("move_alias", m1)>>
                      \o handle_create_non_existent_group_calls(cfg, alias.group, create_group)
                      \o (IF g.res.kind = "Err" THEN <<>>
                          ELSE IF m2.res.kind = "Err"
                          THEN <<Call("move_alias", m2),
                                 Prompt("prompt_create_non_existent_group", create_group)>>
                          ELSE <<Call("move_alias", m2),
                                 Call("edit_alias",
                                      edit_alias_command(m2.config, name, alias.command))>>)

\* after the answer to the overwrite confirmation, which the caller obtained
handle_overwrite_existing_alias_calls(cfg, name, alias, overwrite, create_group) ==
    IF ~overwrite
    THEN <<>>
    ELSE LET old_group == IF ContainsKey(cfg.aliases, name)
                          THEN Get(cfg.aliases, name).group
                          ELSE None
             m1 == move_alias(cfg, name, alias.group)
             g == handle_create_non_existent_group(cfg, alias.group, create_group)
             m2 == move_alias(g.config, name, alias.group)
         IN  IF alias.group = old_group
             THEN <<Call("edit_alias", edit_alias_command(cfg, name, alias.command))>>
             ELSE IF m1.res.err # "GroupDoesNotExist"
             THEN <<Call("move_alias", m1),
                    Call("edit_alias", edit_alias_command(m1.config, name, alias.command))>>
             ELSE <<Call("move_alias", m1)>>
                      \o handle_create_non_existent_group_calls(cfg, alias.group, create_group)
                      \o (IF g.res.kind = "Err" THEN <<>>
                          ELSE IF m2.res.kind = "Err" THEN <<Call("move_alias", m2)>>
                          ELSE <<Call("move_alias", m2),
                                 Call("edit_alias",
                                      edit_alias_command(m2.config, name, alias.command))>>)

handle_add_alias_calls(cfg, name, alias, overwrite, create_group) ==
    LET r == add_alias(cfg, name, alias)
        g == handle_create_non_existent_group(cfg, alias.group, create_group)
    IN  <<Call("add_alias", r)>>
            \o (IF IsOk(r) THEN <<>>
                ELSE IF r.res.err = "AliasAlreadyExists"
                THEN <<Prompt("prompt_overwrite_existing_alias", overwrite)>>
                         \o handle_overwrite_existing_alias_calls(cfg, name, alias,
                                                                  overwrite, create_group)
                ELSE handle_create_non_existent_group_calls(cfg, alias.group, create_group)
                         \o (IF g.res.kind = "ConfigChanged"
                             THEN <<Call("add_alias", add_alias(g.config, name, alias))>>
                             ELSE <<>>))

handle_move_calls(cfg, name, new_group, create_group) ==
    LET r == move_alias(cfg, name, new_group)
        g == add_group(cfg, new_group, TRUE)
    IN  <<Call("move_alias", r)>>
            \o (IF r.res.err # "GroupDoesNotExist" THEN <<>>
                ELSE <<Prompt("prompt_create_non_existent_group", create_group)>>
                         \o (IF ~create_group THEN <<>>
                             ELSE IF g.res.kind = "Err" THEN <<Call("add_group", g)>>
                             ELSE <<Call("add_group", g),
                                    Call("move_alias", move_alias(g.config, name, new_group))>>))

\* handle_edit inserts the group itself and calls edit_alias once
handle_edit_calls(cfg, name, new_command, toggle_enable, toggle_global, group, create_group) ==
    LET asks == /\ ContainsKey(cfg.aliases, name)
                /\ group \notin {NotGiven, None}
                /\ ~ContainsKey(cfg.groups, group)
        r == handle_edit(cfg, name, new_command, toggle_enable, toggle_global, group, create_group)
    IN  (IF asks THEN <<Prompt("prompt_create_non_existent_group", create_group)>> ELSE <<>>)
            \o (IF asks /\ ~create_group THEN <<>> ELSE <<Call("edit_alias", r)>>)

handle_remove_all(cfg, confirmation) ==
    IF confirmation THEN remove_all(cfg) ELSE Ret(cfg, NoChanges)

RECURSIVE ReassignAll(_, _)
ReassignAll(cfg, names) ==
    IF names = <<>>
    THEN Ret(cfg, ConfigChanged)
    ELSE LET r == move_alias(cfg, Head(names), None)
         IN  IF r.res.kind = "Err" THEN r ELSE ReassignAll(r.config, Tail(names))

\* RemoveTarget::Alias
handle_remove_alias(cfg, name) == remove_alias(cfg, name)

\* RemoveTarget::Group: a named group, or (name = None) the ungrouped aliases
\* variant: without reassign the group goes and its members stay
handle_remove_group_keep_members(cfg, name, reassign) ==
    LET aliases == get_single_group(cfg, name)
    IN  IF ~aliases.ok
        THEN Ret(cfg, Failure("GroupDoesNotExist"))
        ELSE IF name = None
        THEN remove_aliases(cfg, aliases.names)
        ELSE LET r == remove_group(cfg, name)
             IN  IF r.res.kind = "Err" THEN r
                 ELSE IF reassign THEN ReassignAll(r.config, aliases.names)
                 ELSE Ret(r.config, Command(<<>>))

handle_remove_group(cfg, name, reassign) ==
    LET aliases == get_single_group(cfg, name)
    IN  IF ~aliases.ok
        THEN Ret(cfg, Failure("GroupDoesNotExist"))
        ELSE IF name = None
        THEN remove_aliases(cfg, aliases.names)
        ELSE LET r == remove_group(cfg, name)
             IN  IF r.res.kind = "Err" THEN r
                 ELSE IF reassign THEN ReassignAll(r.config, aliases.names)
                 ELSE remove_aliases(r.config, aliases.names)

\* SortTarget::Aliases with --group given (None: the ungrouped aliases)
handle_sort_group(cfg, group) == sort_aliases_in_group(cfg, group)

(***************************************************************************)
(* The state machine.  main: the handler runs on the Config; on Command    *)
(* the text goes to the live shell.  A panic ends the process.             *)
(***************************************************************************)
Init ==
    /\ config = ConfigNew
    /\ shell \in ShellTypes
    /\ live = ShellApply({}, generate_alias_script_content(ConfigNew).text)
    /\ last = [op |-> "init", res |-> NoChanges, saved |-> FALSE, sent |-> FALSE,
               altered |-> FALSE]
    /\ steps = 0

Running(max) == steps < max /\ last.res.kind # "Panic"

\* variant: the text of a Command is sent whether or not the save succeeded
Persist_send_first(op, r, save_ok) ==
    LET saved == r.res.kind \in {"Command", "ConfigChanged"} /\ save_ok
        sent == r.res.kind = "Command"
    IN  /\ config' = IF saved THEN r.config ELSE config
        /\ live' = IF sent THEN ShellApply(live, r.res.cmd) ELSE live
        /\ last' = [op |-> op, res |-> r.res, saved |-> saved, sent |-> sent,
                    altered |-> r.config # config]

\* main's match on the result: save_config is called on Command and on
\* ConfigChanged and succeeds or fails (save_ok); the text of a Command is
\* sent after the save, whose failure ends the process before; the next
\* invocation loads what was saved, and last.altered tells whether the
\* handler left the Config it was given as it was
Persist(op, r, save_ok) ==
    LET saved == r.res.kind \in {"Command", "ConfigChanged"} /\ save_ok
        sent == r.res.kind = "Command" /\ saved
    IN  /\ config' = IF saved THEN r.config ELSE config
        /\ live' = IF sent THEN ShellApply(live, r.res.cmd) ELSE live
        /\ last' = [op |-> op, res |-> r.res, saved |-> saved, sent |-> sent,
                    altered |-> r.config # config]

\* main: one invocation, running handler op with outcome r
Main(op, r) ==
    /\ Running(MaxOps)
    /\ \E save_ok \in (IF r.res.kind \in {"Command", "ConfigChanged"} THEN BOOLEAN ELSE {FALSE}) :
           Persist(op, r, save_ok)
    /\ steps' = steps + 1
    /\ UNCHANGED shell

\* a core operation called directly on the Config
Core(op, r) ==
    /\ Running(MaxCoreOps)
    /\ config' = r.config
    /\ last' = [op |-> op, res |-> r.res, saved |-> FALSE, sent |-> FALSE,
                altered |-> r.config # config]
    /\ steps' = steps + 1
    /\ UNCHANGED <<shell, live>>

GroupArgs == GroupNames \cup {None}

HandleAddAlias ==
    \E name \in AliasNames \cup InvalidNames, command \in Commands, group \in GroupArgs,
       disabled \in BOOLEAN, global \in BOOLEAN, overwrite \in BOOLEAN, create_group \in BOOLEAN :
        Main("handle_add_alias",
             handle_add(config, name, command, group, disabled, global, shell,
                        overwrite, create_group))

HandleAddGroup ==
    \E name \in GroupNames, disabled \in BOOLEAN :
        Main("handle_add_group", handle_add_group(config, name, disabled))

HandleMove ==
    \E name \in AliasNames, new_group \in GroupArgs, create_group \in BOOLEAN :
        Main("handle_move", handle_move(config, name, new_group, create_group))

HandleEdit ==
    \E name \in AliasNames, new_command \in Commands, toggle_enable \in BOOLEAN,
       toggle_global \in BOOLEAN, group \in GroupArgs \cup {NotGiven}, create_group \in BOOLEAN :
        Main("handle_edit",
             handle_edit(config, name, new_command, toggle_enable, toggle_global,
                         group, create_group))

HandleRemoveAlias ==
    \E name \in AliasNames : Main("handle_remove_alias", handle_remove_alias(config, name))

HandleRemoveGroup ==
    \E name \in GroupArgs, reassign \in BOOLEAN :
        Main("handle_remove_group", handle_remove_group(config, name, reassign))

HandleRemoveAll ==
    \E confirmation \in BOOLEAN :
        Main("handle_remove_all", handle_remove_all(config, confirmation))

HandleRenameAlias ==
    \E old \in AliasNames, new \in AliasNames :
        Main("handle_rename_alias", rename_alias(config, old, new))

HandleRenameGroup ==
    \E old \in GroupNames, new \in GroupNames :
        Main("handle_rename_group", rename_group(config, old, new))

HandleEnableAlias ==
    \E name \in AliasNames : Main("handle_enable_alias", enable_alias(config, name))

HandleEnableGroup ==
    \E name \in GroupNames : Main("handle_enable_group", enable_group(config, name))

HandleDisableAlias ==
    \E name \in AliasNames : Main("handle_disable_alias", disable_alias(config, name))

HandleDisableGroup ==
    \E name \in GroupNames : Main("handle_disable_group", disable_group(config, name))

HandleSortGroup ==
    \E group \in GroupArgs : Main("handle_sort_group", handle_sort_group(config, group))

HandleSortAll == Main("handle_sort_all", sort_all_aliases(config))

HandleSortGroups == Main("handle_sort_groups", sort_groups(config))

Next ==
    \/ HandleAddAlias
    \/ HandleAddGroup
    \/ HandleMove
    \/ HandleEdit
    \/ HandleRemoveAlias
    \/ HandleRemoveGroup
    \/ HandleRemoveAll
    \/ HandleRenameAlias
    \/ HandleRenameGroup
    \/ HandleEnableAlias
    \/ HandleEnableGroup
    \/ HandleDisableAlias
    \/ HandleDisableGroup
    \/ HandleSortGroup
    \/ HandleSortAll
    \/ HandleSortGroups

Spec == Init /\ [][Next]_vars

(***************************************************************************)
(* The core operations called directly, as a library.                      *)
(***************************************************************************)
AliasArgs ==
    {AliasNew(command, group, enabled, global) :
        command \in Commands, group \in GroupArgs, enabled \in BOOLEAN, global \in BOOLEAN}

CoreAddAlias ==
    \E name \in AliasNames, alias \in AliasArgs :
        Core("add_alias", add_alias(config, name, alias))

CoreAddGroup ==
    \E name \in GroupNames, enabled \in BOOLEAN :
        Core("add_group", add_group(config, name, enabled))

CoreEditAlias ==
    \E name \in AliasNames, alias \in AliasArgs :
        Core("edit_alias", edit_alias(config, name, alias))

CoreMoveAlias ==
    \E name \in AliasNames, group \in GroupArgs :
        Core("move_alias", move_alias(config, name, group))

CoreRemoveAlias ==
    \E name \in AliasNames : Core("remove_alias", remove_alias(config, name))

CoreRemoveGroup ==
    \E name \in GroupNames : Core("remove_group", remove_group(config, name))

CoreRenameAlias ==
    \E old \in AliasNames, new \in AliasNames :
        Core("rename_alias", rename_alias(config, old, new))

CoreRenameGroup ==
    \E old \in GroupNames, new \in GroupNames :
        Core("rename_group", rename_group(config, old, new))

CoreEnableAlias ==
    \E name \in AliasNames : Core("enable_alias", enable_alias(config, name))

CoreEnableGroup ==
    \E name \in GroupNames : Core("enable_group", enable_group(config, name))

CoreDisableAlias ==
    \E name \in AliasNames : Core("disable_alias", disable_alias(config, name))

CoreDisableGroup ==
    \E name \in GroupNames : Core("disable_group", disable_group(config, name))

CoreSortAliasesInGroup ==
    \E group \in GroupArgs :
        Core("sort_aliases_in_group", sort_aliases_in_group(config, group))

CoreSortAllAliases == Core("sort_all_aliases", sort_all_aliases(config))

CoreSortGroups == Core("sort_groups", sort_groups(config))

CoreNext ==
    \/ CoreAddAlias
    \/ CoreAddGroup
    \/ CoreEditAlias
    \/ CoreMoveAlias
    \/ CoreRemoveAlias
    \/ CoreRemoveGroup
    \/ CoreRenameAlias
    \/ CoreRenameGroup
    \/ CoreEnableAlias
    \/ CoreEnableGroup
    \/ CoreDisableAlias
    \/ CoreDisableGroup
    \/ CoreSortAliasesInGroup
    \/ CoreSortAllAliases
    \/ CoreSortGroups

\* the core operations take no shell: one shell stands for both
CoreInit == Init /\ shell = "Bash"

CoreSpec == CoreInit /\ [][CoreNext]_vars

(***************************************************************************)
(* Properties.                                                             *)
(***************************************************************************)
\* the alias definitions a shell holds after evaluating the full resync of cfg
(***************************************************************************)
(* Sorting on its own: the Configs that add_group and add_alias build with *)
(* up to three aliases in any insertion order and any grouping, and the    *)
(* three sorts applied to them.                                            *)
(***************************************************************************)
SortNames == {"a", "g", "h"}

\* the insertion orders of distinct alias names
AliasOrders ==
    {s \in UNION {[1..n -> SortNames] : n \in 0..Cardinality(SortNames)} :
        \A i, j \in DOMAIN s : i # j => s[i] # s[j]}

\* the alias maps over the group map groups: names in the order s, groups by f
AliasMaps(groups) ==
    {[i \in DOMAIN s |-> [key |-> s[i], val |-> AliasNew("c1", f[i], TRUE, FALSE)]] :
        <<s, f>> \in {<<s, f>> \in AliasOrders \X UNION {[1..n -> Keys(groups) \cup {None}] :
                                                            n \in 0..Cardinality(SortNames)} :
                        DOMAIN s = DOMAIN f}}

SortConfigs ==
    {[aliases |-> aliases, groups |-> groups] :
        <<groups, aliases>> \in
            {<<groups, aliases>> \in
                {<<[key |-> "g", val |-> TRUE]>>,
                 <<[key |-> "h", val |-> TRUE], [key |-> "g", val |-> TRUE]>>}
                \X AliasMaps(<<[key |-> "h", val |-> TRUE], [key |-> "g", val |-> TRUE]>>) :
                \A i \in DOMAIN aliases :
                    aliases[i].val.group = None \/ ContainsKey(groups, aliases[i].val.group)}}

SortInit ==
    /\ config \in SortConfigs
    /\ shell \in ShellTypes
    /\ live = ShellApply({}, generate_alias_script_content(config).text)
    /\ last = [op |-> "init", res |-> NoChanges, saved |-> FALSE, sent |-> FALSE,
               altered |-> FALSE]
    /\ steps = 0

SortNext ==
    \/ CoreSortAliasesInGroup
    \/ CoreSortAllAliases
    \/ CoreSortGroups

SortSpec == SortInit /\ [][SortNext]_vars

(***************************************************************************)
(* Loading on its own: main's load_config at the start of an invocation,   *)
(* on any file of up to two entries, groups holding up to one entry; the   *)
(* file read is kept in last.input.                                        *)
(***************************************************************************)
DiskNames == {"a", "g"}

\* what an entry inside a group table can be: an alias in either form, or a
\* table that is itself a group
InnerSpecs ==
    {Simple("c1")} \cup {Detailed("c1", enabled) : enabled \in BOOLEAN}
        \cup {Group(enabled, <<>>) : enabled \in BOOLEAN}

InnerEntries ==
    {<<>>} \cup {<<[key |-> name, val |-> val]>> : name \in DiskNames, val \in InnerSpecs}

\* what a top-level entry can be
TopSpecs ==
    {Simple("c1")} \cup {Detailed("c1", enabled) : enabled \in BOOLEAN}
        \cup {Group(enabled, aliases) : enabled \in BOOLEAN, aliases \in InnerEntries}

\* the files: a TOML table has each key once
DiskSpecs ==
    {<<>>}
        \cup {<<[key |-> name, val |-> val]>> : name \in DiskNames, val \in TopSpecs}
        \cup {<<[key |-> n[1], val |-> v1], [key |-> n[2], val |-> v2]>> :
                n \in {<<"a", "g">>, <<"g", "a">>}, v1 \in TopSpecs, v2 \in TopSpecs}

\* load_config: a panic in convert_spec_to_config ends the process with the
\* Config as constructed
LoadConfig ==
    /\ last.op = "init"
    /\ \E spec \in DiskSpecs :
           LET decoded == convert_spec_to_config(spec)
           IN  /\ config' = IF decoded.panicked THEN config ELSE decoded.config
               /\ last' = [op |-> "load_config",
                           res |-> IF decoded.panicked
                                   THEN Panic("nested groups are not supported")
                                   ELSE NoChanges,
                           saved |-> FALSE, sent |-> FALSE,
                           altered |-> ~decoded.panicked /\ decoded.config # config,
                           input |-> spec]
    /\ steps' = steps + 1
    /\ UNCHANGED <<shell, live>>

DecodeNext == LoadConfig

DecodeSpec == Init /\ [][DecodeNext]_vars

(***************************************************************************)
(* The handlers on a loaded Config: an invocation starts from what         *)
(* load_config decoded from a file of at most one entry (the empty file    *)
(* gives the empty Config).                                                *)
(***************************************************************************)
MaxLoadedOps == 1

LoadableSpecs == {spec \in DiskSpecs : Len(spec) <= 1}

\* the Configs of the successful decodes
DecodedConfigs ==
    {convert_spec_to_config(spec).config :
        spec \in {d \in LoadableSpecs : ~convert_spec_to_config(d).panicked}}

LoadedInit ==
    /\ config \in DecodedConfigs
    /\ shell \in ShellTypes
    /\ live = ShellApply({}, generate_alias_script_content(config).text)
    /\ last = [op |-> "init", res |-> NoChanges, saved |-> FALSE, sent |-> FALSE,
               altered |-> FALSE]
    /\ steps = 0

LoadedNext == steps < MaxLoadedOps /\ Next

LoadedSpec == LoadedInit /\ [][LoadedNext]_vars

(***************************************************************************)
(* The core operations on maps of three entries: one call on a Config of   *)
(* three groups and up to three aliases, so that a removal leaves two      *)
(* entries whose order can be told.                                        *)
(***************************************************************************)
MaxOrderOps == 1

OrderGroups ==
    <<[key |-> "h", val |-> TRUE], [key |-> "a", val |-> TRUE], [key |-> "g", val |-> TRUE]>>

OrderConfigs ==
    {[aliases |-> aliases, groups |-> OrderGroups] :
        aliases \in AliasMaps(<<[key |-> "g", val |-> TRUE]>>)}

OrderInit ==
    /\ config \in OrderConfigs
    /\ shell = "Bash"
    /\ live = ShellApply({}, generate_alias_script_content(config).text)
    /\ last = [op |-> "init", res |-> NoChanges, saved |-> FALSE, sent |-> FALSE,
               altered |-> FALSE]
    /\ steps = 0

OrderNext == steps < MaxOrderOps /\ CoreNext

OrderSpec == OrderInit /\ [][OrderNext]_vars

(***************************************************************************)
(* The add, move and edit handlers run on a loaded Config: the three       *)
(* handlers that ask for a confirmation and call a core operation again.   *)
(***************************************************************************)
MaxRecoveryOps == 1

RecoveryInit ==
    /\ config \in DecodedConfigs
    /\ shell = "Bash"
    /\ live = ShellApply({}, generate_alias_script_content(config).text)
    /\ last = [op |-> "init", res |-> NoChanges, saved |-> FALSE, sent |-> FALSE,
               altered |-> FALSE]
    /\ steps = 0

RecoveryNext ==
    /\ steps < MaxRecoveryOps
    /\ \/ HandleAddAlias
       \/ HandleMove
       \/ HandleEdit

RecoverySpec == RecoveryInit /\ [][RecoveryNext]_vars

Visible(cfg) == ShellApply({}, generate_alias_script_content(cfg).text)

\* the Config the codec gives back for the current Config
RoundTrip == convert_spec_to_config(convert_config_to_spec(config))

\* the content of an IndexMap without its order
Entries(m) == {m[i] : i \in DOMAIN m}

\* C1: after any sequence of top-level operations the aliases defined in the
\* live shell (name and command) are exactly those the full resync of the
\* current Config emits.
CE_C1 ==
    /\ ~generate_alias_script_content(config).panicked
    /\ live = Visible(config)

\* C2: every stored alias satisfies detailed = (~enabled \/ global).
CE_C2 ==
    \A i \in DOMAIN config.aliases :
        LET alias == config.aliases[i].val
        IN  alias.detailed = ((~alias.enabled) \/ alias.global)

\* C3: for every Config reachable through the core operations, decoding the
\* encoded Config gives the same alias names with the same field values and
\* the same group names with the same enabled flags.
CE_C3 ==
    /\ ~RoundTrip.panicked
    /\ Entries(RoundTrip.config.aliases) = Entries(config.aliases)
    /\ Entries(RoundTrip.config.groups) = Entries(config.groups)

\* C4: after every completed top-level operation, every alias with a group
\* has that group among the keys of Config.groups.
Thm_C4 == ~HasDanglingGroup(config)

\* a group that has a member was renamed
Wit_C4 ==
    /\ last.op = "handle_rename_group"
    /\ last.res.kind = "ConfigChanged"
    /\ \E i \in DOMAIN config.aliases : config.aliases[i].val.group # None

\* C5: whenever an operation returns ConfigChanged, the set of alias
\* definitions the full resync emits is the same before and after it.
CE_C5 ==
    [][last'.res.kind = "ConfigChanged" => Visible(config') = Visible(config)]_vars

\* C6: whenever an operation returns NoChanges, the Config after the call is
\* identical to the Config before it, order included: the handler has not
\* altered the Config it was given, and the persisted Config stays.
Thm_C6 ==
    [][last'.res.kind = "NoChanges" => (~last'.altered /\ config' = config)]_vars

\* a move of an existing alias to a missing group was declined
Wit_C6 ==
    /\ last.op = "handle_move"
    /\ last.res.kind = "NoChanges"
    /\ config.aliases # <<>>

\* C7: the encoder emits the bare-string shorthand only for an alias that is
\* enabled and not global, and what it emits for a disabled or global alias
\* decodes to an alias with the same enabled and global values.
CE_C7 ==
    \A i \in DOMAIN config.aliases :
        LET alias == config.aliases[i].val
        IN  \A item \in {convert_alias_to_spec(alias), build_alias_item(alias)} :
                /\ item.kind = "Simple" => alias.enabled /\ ~alias.global
                /\ convert_spec_to_alias(item, alias.group).enabled = alias.enabled
                /\ convert_spec_to_alias(item, alias.group).global = alias.global

\* C8: add_alias(n) succeeds when a group n exists, add_group(n) succeeds
\* when an alias n exists, and a Config holding an alias n and a group n is
\* decoded back from its encoding with both: the alias with its fields, the
\* group with its flag and members.
CE_C8 ==
    \A n \in AliasNames \cap GroupNames :
        /\ (ContainsKey(config.groups, n) /\ ~ContainsKey(config.aliases, n))
              => \A command \in Commands : IsOk(add_alias(config, n, AliasNew(command, None, TRUE, FALSE)))
        /\ (ContainsKey(config.aliases, n) /\ ~ContainsKey(config.groups, n))
              => \A enabled \in BOOLEAN : IsOk(add_group(config, n, enabled))
        /\ (ContainsKey(config.aliases, n) /\ ContainsKey(config.groups, n))
              => /\ ~RoundTrip.panicked
                 /\ ContainsKey(RoundTrip.config.aliases, n)
                 /\ Get(RoundTrip.config.aliases, n) = Get(config.aliases, n)
                 /\ ContainsKey(RoundTrip.config.groups, n)
                 /\ Get(RoundTrip.config.groups, n) = Get(config.groups, n)
                 /\ AliasesWithGroup(RoundTrip.config, n) = AliasesWithGroup(config, n)

\* x comes before y in both maps, or after y in both, if both hold both
SameRelativeOrder(m1, m2, x, y) ==
    (ContainsKey(m1, x) /\ ContainsKey(m1, y) /\ ContainsKey(m2, x) /\ ContainsKey(m2, y))
        => ((IndexOf(m1, x) < IndexOf(m1, y)) <=> (IndexOf(m2, x) < IndexOf(m2, y)))

\* C9: decoding the encoded Config lists the groups in the same order and,
\* within each group and among the ungrouped aliases, the aliases in the
\* same relative order.
CE_C9 ==
    /\ ~RoundTrip.panicked
    /\ \A x, y \in GroupNames :
           SameRelativeOrder(config.groups, RoundTrip.config.groups, x, y)
    /\ \A x, y \in Keys(config.aliases) :
           Get(config.aliases, x).group = Get(config.aliases, y).group
               => SameRelativeOrder(config.aliases, RoundTrip.config.aliases, x, y)

\* the calls of handle_add on the current Config that name an existing alias
\* and a missing group, accept the overwrite and decline to create the group
OverwriteDeclined ==
    {handle_add(config, name, command, group, disabled, global, shell, TRUE, FALSE) :
        name \in {n \in AliasNames : ContainsKey(config.aliases, n)},
        command \in Commands,
        group \in {g \in GroupNames : ~ContainsKey(config.groups, g)},
        disabled \in BOOLEAN,
        global \in {b \in BOOLEAN : b => shell = "Zsh"}}

\* C10: adding an alias whose name exists, overwrite accepted, group missing,
\* creation declined: the operation fails with GroupDoesNotExist and leaves
\* the Config unchanged (old command, group, enabled, global; no new group).
Thm_C10 ==
    \A r \in OverwriteDeclined :
        r.res = Failure("GroupDoesNotExist") /\ r.config = config

\* the handler took that path
Wit_C10 ==
    /\ last.op = "handle_add_alias"
    /\ last.res = Failure("GroupDoesNotExist")
    /\ config.aliases # <<>>

\* C10 as stated: the same call yields NoChanges and leaves the Config unchanged.
CE_C10 ==
    \A r \in OverwriteDeclined :
        r.res = NoChanges /\ r.config = config

\* C11: overwriting an existing alias through handle_add, the overwrite and
\* (if the group is missing) its creation accepted, leaves under that name an
\* alias equal to the supplied one in every field, detailed included.
CE_C11 ==
    \A name \in Keys(config.aliases) \cap AliasNames, command \in Commands,
       group \in GroupArgs, disabled \in BOOLEAN,
       global \in {b \in BOOLEAN : b => shell = "Zsh"} :
        LET r == handle_add(config, name, command, group, disabled, global, shell, TRUE, TRUE)
        IN  /\ ContainsKey(r.config.aliases, name)
            /\ Get(r.config.aliases, name) = AliasNew(command, group, ~disabled, global)

\* the groups of the current Config with group g added, enabled, at the end
WithGroup(g) == Append(config.groups, [key |-> g, val |-> TRUE])

\* C12, add of a new alias naming a missing group: creation accepted, the
\* group is created enabled and the alias is added as its member; creation
\* declined, the outcome is NoChanges and the Config is unchanged.
AddToMissingGroup ==
    \A name \in AliasNames \ Keys(config.aliases), group \in GroupNames \ Keys(config.groups),
       command \in Commands, disabled \in BOOLEAN, overwrite \in BOOLEAN,
       global \in {b \in BOOLEAN : b => shell = "Zsh"} :
        LET yes == handle_add(config, name, command, group, disabled, global, shell, overwrite, TRUE)
            no == handle_add(config, name, command, group, disabled, global, shell, overwrite, FALSE)
        IN  /\ IsOk(yes)
            /\ yes.config.groups = WithGroup(group)
            /\ yes.config.aliases =
                   Append(config.aliases,
                          [key |-> name, val |-> AliasNew(command, group, ~disabled, global)])
            /\ no.res = NoChanges
            /\ no.config = config

\* C12, move of an alias to a missing group: creation accepted, the group is
\* created enabled and the alias is its member; declined, NoChanges and an
\* unchanged Config; a missing alias fails with AliasDoesNotExist whatever
\* the answer would be, and no group is created.
MoveToMissingGroup ==
    \A name \in AliasNames, group \in GroupNames \ Keys(config.groups) :
        LET yes == handle_move(config, name, group, TRUE)
            no == handle_move(config, name, group, FALSE)
        IN  IF ContainsKey(config.aliases, name)
            THEN /\ IsOk(yes)
                 /\ yes.config.groups = WithGroup(group)
                 /\ yes.config.aliases =
                        Insert(config.aliases, name,
                               [Get(config.aliases, name) EXCEPT !.group = group])
                 /\ no.res = NoChanges
                 /\ no.config = config
            ELSE /\ yes = Ret(config, Failure("AliasDoesNotExist"))
                 /\ no = yes

\* C12: Pattern B at both entry points.
Thm_C12 == AddToMissingGroup /\ MoveToMissingGroup

\* an add went through the create-group recovery: only that path of
\* handle_add returns ConfigChanged
Wit_C12 ==
    /\ last.op = "handle_add_alias"
    /\ last.res = ConfigChanged
    /\ \E i \in DOMAIN config.aliases :
           /\ config.aliases[i].val.group # None
           /\ ContainsKey(config.groups, config.aliases[i].val.group)

\* the enabled members of group name in the Config, by the claim's words: the
\* sequence lists each of them once, in the order of Config.aliases
IsEnabledMembers(names, name) ==
    /\ {names[i] : i \in DOMAIN names} =
           {n \in Keys(config.aliases) :
               Get(config.aliases, n).group = name /\ Get(config.aliases, n).enabled}
    /\ \A i, j \in DOMAIN names :
           i < j => IndexOf(config.aliases, names[i]) < IndexOf(config.aliases, names[j])

\* C13: disable_group on an enabled group sets its flag to false and returns
\* a Command of exactly one unalias statement per member whose own enabled
\* flag is true, in Config order (ConfigChanged when there is none); on a
\* disabled group NoChanges, on a missing group GroupDoesNotExist; nothing
\* else in the Config changes.
Thm_C13 ==
    \A name \in GroupNames :
        LET r == disable_group(config, name)
            names == [i \in DOMAIN r.res.cmd |-> r.res.cmd[i].name]
        IN  IF ~ContainsKey(config.groups, name)
            THEN r = Ret(config, Failure("GroupDoesNotExist"))
            ELSE IF ~Get(config.groups, name)
            THEN r = Ret(config, NoChanges)
            ELSE /\ r.config = [config EXCEPT !.groups = Insert(@, name, FALSE)]
                 /\ IsEnabledMembers(names, name)
                 /\ \A i \in DOMAIN r.res.cmd : r.res.cmd[i] = unalias_str(names[i])
                 /\ r.res.kind = IF names = <<>> THEN "ConfigChanged" ELSE "Command"

\* an enabled group with two enabled members, disabled with two statements
Wit_C13 ==
    \E name \in GroupNames :
        /\ ContainsKey(config.groups, name)
        /\ Get(config.groups, name)
        /\ disable_group(config, name).res.kind = "Command"
        /\ Len(disable_group(config, name).res.cmd) = 2

\* C14: enable_group on an existing group sets its flag to true and returns
\* a Command of exactly one alias-definition statement per member whose own
\* enabled flag is true, in Config order (ConfigChanged when there is none);
\* the aliases and the other groups are unchanged; on a missing group
\* GroupDoesNotExist.
Thm_C14 ==
    \A name \in GroupNames :
        LET r == enable_group(config, name)
            names == [i \in DOMAIN r.res.cmd |-> r.res.cmd[i].name]
        IN  IF ~ContainsKey(config.groups, name)
            THEN r = Ret(config, Failure("GroupDoesNotExist"))
            ELSE /\ r.config = [config EXCEPT !.groups = Insert(@, name, TRUE)]
                 /\ IsEnabledMembers(names, name)
                 /\ \A i \in DOMAIN r.res.cmd :
                        r.res.cmd[i] = add_alias_str(names[i], Get(config.aliases, names[i]))
                 /\ r.res.kind = IF names = <<>> THEN "ConfigChanged" ELSE "Command"

\* a group with an enabled member was enabled: one statement
Wit_C14 ==
    /\ last.op = "enable_group"
    /\ last.res.kind = "Command"
    /\ Len(last.res.cmd) = 1

\* the alias's group is a group of the Config whose flag is false
InDisabledGroup(alias) ==
    /\ alias.group # None
    /\ ContainsKey(config.groups, alias.group)
    /\ ~Get(config.groups, alias.group)

\* C15: enable_alias / disable_alias on an existing alias set its enabled
\* flag; the outcome is ConfigChanged if the alias's group is disabled, else
\* Command with the alias-definition statement / unalias; disable_alias of a
\* disabled alias is NoChanges; a missing alias fails with AliasDoesNotExist.
CE_C15 ==
    \A name \in AliasNames :
        LET e == enable_alias(config, name)
            d == disable_alias(config, name)
        IN  IF ~ContainsKey(config.aliases, name)
            THEN /\ e = Ret(config, Failure("AliasDoesNotExist"))
                 /\ d = Ret(config, Failure("AliasDoesNotExist"))
            ELSE LET alias == Get(config.aliases, name)
                 IN  /\ Get(e.config.aliases, name).enabled
                     /\ e.res = IF InDisabledGroup(alias)
                                THEN ConfigChanged
                                ELSE Command(<<add_alias_str(name, alias)>>)
                     /\ IF ~alias.enabled
                        THEN d = Ret(config, NoChanges)
                        ELSE /\ ~Get(d.config.aliases, name).enabled
                             /\ d.res = IF InDisabledGroup(alias)
                                        THEN ConfigChanged
                                        ELSE Command(<<unalias_str(name)>>)

\* m2 is m1 with the alias stored under name changed in its group field
\* only, to group: same keys in the same order, every other value the same
OnlyGroupChanged(m1, m2, name, group) ==
    /\ KeySeq(m2) = KeySeq(m1)
    /\ \A i \in DOMAIN m1 :
           IF m1[i].key = name
           THEN /\ m2[i].val.group = group
                /\ m2[i].val.command = m1[i].val.command
                /\ m2[i].val.enabled = m1[i].val.enabled
                /\ m2[i].val.global = m1[i].val.global
                /\ m2[i].val.detailed = m1[i].val.detailed
           ELSE m2[i] = m1[i]

\* C16: move_alias of a missing alias fails with AliasDoesNotExist (checked
\* first); to a group that does not exist it fails with GroupDoesNotExist;
\* both leave the Config unchanged; a successful move changes only the group
\* field of that alias and returns ConfigChanged.
Thm_C16 ==
    \A name \in AliasNames, group \in GroupArgs :
        LET r == move_alias(config, name, group)
        IN  IF ~ContainsKey(config.aliases, name)
            THEN r = Ret(config, Failure("AliasDoesNotExist"))
            ELSE IF group # None /\ ~ContainsKey(config.groups, group)
            THEN r = Ret(config, Failure("GroupDoesNotExist"))
            ELSE /\ r.res = ConfigChanged
                 /\ r.config.groups = config.groups
                 /\ OnlyGroupChanged(config.aliases, r.config.aliases, name, group)

\* a move of an existing alias to a missing group has failed
Wit_C16 ==
    /\ last.op = "move_alias"
    /\ last.res = Failure("GroupDoesNotExist")
    /\ config.aliases # <<>>

\* the aliases that add_alias accepts under a new name in the current Config
Addable ==
    {alias \in AliasArgs : alias.group = None \/ ContainsKey(config.groups, alias.group)}

\* C17: for a name that is not an alias and an alias whose group, if set,
\* exists, add_alias followed by remove_alias of that name succeeds twice and
\* gives back the Config it started from, entries, field values and order.
Thm_C17 ==
    \A name \in AliasNames \ Keys(config.aliases), alias \in Addable :
        LET added == add_alias(config, name, alias)
            removed == remove_alias(added.config, name)
        IN  /\ IsOk(added)
            /\ added.config # config
            /\ IsOk(removed)
            /\ removed.config = config

\* a Config holding an alias and a group, to which an alias of that group is
\* added under a new name and removed again
Wit_C17 ==
    /\ config.aliases # <<>>
    /\ \E name \in AliasNames \ Keys(config.aliases), alias \in Addable :
        /\ alias.group # None
        /\ ContainsKey(add_alias(config, name, alias).config.aliases, name)
        /\ remove_alias(add_alias(config, name, alias).config, name).res.kind = "Command"

\* C18: add_alias fails with AliasAlreadyExists when the name is an alias
\* (whatever the group), fails with GroupDoesNotExist when the name is free and
\* the group is set and missing, and changes nothing in both cases; otherwise
\* it appends the alias with the given command, group, enabled and global
\* values, touches nothing else, and returns Command with one alias
\* statement, global exactly when the alias is global.
Thm_C18 ==
    \A name \in AliasNames, alias \in AliasArgs :
        LET r == add_alias(config, name, alias)
        IN  IF ContainsKey(config.aliases, name)
            THEN r.res = Failure("AliasAlreadyExists") /\ r.config = config
            ELSE IF alias.group # None /\ ~ContainsKey(config.groups, alias.group)
            THEN r.res = Failure("GroupDoesNotExist") /\ r.config = config
            ELSE /\ r.res.kind = "Command"
                 /\ Len(r.res.cmd) = 1
                 /\ r.res.cmd[1].op = "alias"
                 /\ r.res.cmd[1].name = name
                 /\ r.res.cmd[1].command = alias.command
                 /\ r.res.cmd[1].global = alias.global
                 /\ r.config.groups = config.groups
                 /\ Len(r.config.aliases) = Len(config.aliases) + 1
                 /\ SubSeq(r.config.aliases, 1, Len(config.aliases)) = config.aliases
                 /\ LET new == Get(r.config.aliases, name)
                    IN  /\ new.command = alias.command
                        /\ new.group = alias.group
                        /\ new.enabled = alias.enabled
                        /\ new.global = alias.global

\* an add_alias turned down because the name is taken, in a Config without
\* groups (so that an alias naming a group also fails on the name)
Wit_C18 ==
    /\ last.op = "add_alias"
    /\ last.res = Failure("AliasAlreadyExists")
    /\ config.groups = <<>>

\* C19 as stated: add_group fails with GroupAlreadyExists when the group
\* exists, leaving the Config as it was; otherwise it appends the group with
\* the given flag, changes no alias and returns ConfigChanged.
CE_C19 ==
    \A name \in GroupNames, enabled \in BOOLEAN :
        LET r == add_group(config, name, enabled)
        IN  IF ContainsKey(config.groups, name)
            THEN r.res = Failure("GroupAlreadyExists") /\ r.config = config
            ELSE /\ r.res = ConfigChanged
                 /\ r.config.aliases = config.aliases
                 /\ r.config.groups = Append(config.groups, [key |-> name, val |-> enabled])

\* C20: rename_alias fails with AliasDoesNotExist when old is not an alias and
\* with AliasAlreadyExists when new is one (new = old included); when it
\* succeeds, the alias under new is the alias that was under old, field for
\* field (detailed included), old is no longer a key, every other alias and
\* every group is as before; it succeeds whenever the alias's group, if set,
\* exists.
Thm_C20 ==
    \A old \in AliasNames, new \in AliasNames :
        LET r == rename_alias(config, old, new)
        IN  IF ~ContainsKey(config.aliases, old)
            THEN r.res = Failure("AliasDoesNotExist")
            ELSE IF ContainsKey(config.aliases, new)
            THEN r.res = Failure("AliasAlreadyExists")
            ELSE LET alias == Get(config.aliases, old)
                 IN  /\ (alias.group = None \/ ContainsKey(config.groups, alias.group))
                            => IsOk(r)
                     /\ IsOk(r) =>
                            /\ ContainsKey(r.config.aliases, new)
                            /\ Get(r.config.aliases, new) = alias
                            /\ ~ContainsKey(r.config.aliases, old)
                            /\ Keys(r.config.aliases) = (Keys(config.aliases) \ {old}) \cup {new}
                            /\ \A n \in Keys(config.aliases) \ {old} :
                                   Get(r.config.aliases, n) = Get(config.aliases, n)
                            /\ r.config.groups = config.groups

\* a rename that succeeded on an alias whose detailed flag is not the
\* negation of its enabled flag
Wit_C20 ==
    /\ last.op = "rename_alias"
    /\ last.res.kind = "Command"
    /\ \E i \in DOMAIN config.aliases :
           config.aliases[i].val.detailed = config.aliases[i].val.enabled

\* C21: rename_group fails with GroupDoesNotExist when old is not a group and
\* with GroupAlreadyExists when new is one, the Config unchanged; otherwise
\* the outcome is ConfigChanged, new is a group with the flag old had, old is
\* no group any more, the other groups keep their flags, the members of old
\* are members of new and are otherwise as before, and every other alias is
\* as before, in the same order.
Thm_C21 ==
    \A old \in GroupNames, new \in GroupNames :
        LET r == rename_group(config, old, new)
        IN  IF ~ContainsKey(config.groups, old)
            THEN r.res = Failure("GroupDoesNotExist") /\ r.config = config
            ELSE IF ContainsKey(config.groups, new)
            THEN r.res = Failure("GroupAlreadyExists") /\ r.config = config
            ELSE /\ r.res = ConfigChanged
                 /\ Keys(r.config.groups) = (Keys(config.groups) \ {old}) \cup {new}
                 /\ Get(r.config.groups, new) = Get(config.groups, old)
                 /\ \A g \in Keys(config.groups) \ {old} :
                        Get(r.config.groups, g) = Get(config.groups, g)
                 /\ KeySeq(r.config.aliases) = KeySeq(config.aliases)
                 /\ \A i \in DOMAIN config.aliases :
                        LET before == config.aliases[i].val
                            after == r.config.aliases[i].val
                        IN  IF before.group = old
                            THEN after = [before EXCEPT !.group = new]
                            ELSE after = before

\* a disabled group with a member was renamed
Wit_C21 ==
    /\ last.op = "rename_group"
    /\ last.res = ConfigChanged
    /\ \E i \in DOMAIN config.aliases :
           /\ ContainsKey(config.groups, config.aliases[i].val.group)
           /\ ~Get(config.groups, config.aliases[i].val.group)

\* C22: remove_group of an existing group returns ConfigChanged and removes
\* that group entry only: the alias map is the same sequence (keys, fields,
\* the group field of the former members included, order) and the other
\* groups keep their flags and their order; of a missing group it fails with
\* GroupDoesNotExist and the Config is unchanged.
Thm_C22 ==
    \A name \in GroupNames :
        LET r == remove_group(config, name)
        IN  IF ContainsKey(config.groups, name)
            THEN /\ r.res = ConfigChanged
                 /\ r.config.aliases = config.aliases
                 /\ Entries(r.config.groups) =
                        Entries(config.groups) \ {[key |-> name, val |-> Get(config.groups, name)]}
                 /\ Len(r.config.groups) = Len(config.groups) - 1
                 /\ \A x \in Keys(r.config.groups), y \in Keys(r.config.groups) :
                        SameRelativeOrder(config.groups, r.config.groups, x, y)
            ELSE r.res = Failure("GroupDoesNotExist") /\ r.config = config

\* a group was removed and an alias still names it
Wit_C22 ==
    /\ last.op = "remove_group"
    /\ last.res = ConfigChanged
    /\ HasDanglingGroup(config)

\* the entries of the alias map whose group is not g, in Config order
NonMembers(g) == SelectSeq(config.aliases, LAMBDA e : e.val.group # g)

\* the groups without g, in Config order
GroupsWithout(g) == SelectSeq(config.groups, LAMBDA e : e.key # g)

\* C23, named group with reassign: ConfigChanged, the group is gone, every
\* former member is still there, ungrouped and otherwise as it was, every
\* other alias and group is as it was.
RemoveGroupReassign ==
    \A g \in Keys(config.groups) :
        LET r == handle_remove_group(config, g, TRUE)
        IN  /\ r.res = ConfigChanged
            /\ r.config.groups = GroupsWithout(g)
            /\ KeySeq(r.config.aliases) = KeySeq(config.aliases)
            /\ \A i \in DOMAIN config.aliases :
                   LET before == config.aliases[i].val
                   IN  r.config.aliases[i].val =
                           IF before.group = g THEN [before EXCEPT !.group = None] ELSE before

\* C23, named group without reassign: a Command of one unalias per former
\* member, the group and its members are gone, the rest is as it was.
RemoveGroupMembers ==
    \A g \in Keys(config.groups) :
        LET r == handle_remove_group(config, g, FALSE)
            members == AliasesWithGroup(config, g)
        IN  /\ r.res.kind = "Command"
            /\ r.res.cmd = [i \in DOMAIN members |-> unalias_str(members[i])]
            /\ r.config.groups = GroupsWithout(g)
            /\ r.config.aliases = NonMembers(g)

\* C23, ungrouped scope: exactly the aliases without a group are removed, no
\* group is touched.
RemoveUngrouped ==
    \A reassign \in BOOLEAN :
        LET r == handle_remove_group(config, None, reassign)
        IN  /\ r.res.kind = "Command"
            /\ r.config.groups = config.groups
            /\ r.config.aliases = NonMembers(None)

Thm_C23 == RemoveGroupReassign /\ RemoveGroupMembers /\ RemoveUngrouped

\* a group with a member was removed with reassign: the member is ungrouped
Wit_C23 ==
    /\ last.op = "handle_remove_group"
    /\ last.res = ConfigChanged
    /\ config.groups = <<>>
    /\ config.aliases # <<>>
    /\ \A i \in DOMAIN config.aliases : config.aliases[i].val.group = None

\* the names of sequence s are in ascending name order
Ascending(s) == \A i, j \in DOMAIN s : i < j => NameLess(s[i], s[j])

\* the scopes sort_aliases_in_group accepts in the current Config
SortScopes == Keys(config.groups) \cup {None}

\* C24 as stated: after sort_aliases_in_group of an existing scope the aliases
\* of that scope, read in Config order, are in ascending name order, whatever
\* the order before, and the aliases of every other scope keep their order.
CE_C24 ==
    \A scope \in SortScopes :
        LET r == sort_aliases_in_group(config, scope)
        IN  /\ r.res = ConfigChanged
            /\ Ascending(AliasesWithGroup(r.config, scope))
            /\ \A other \in SortScopes \ {scope} :
                   AliasesWithGroup(r.config, other) = AliasesWithGroup(config, other)

StatementsFor(text, name) ==
    SelectSeq(text, LAMBDA stmt : stmt.op = "alias" /\ stmt.name = name)

\* the alias is enabled and its group, if it has one, is enabled
EnabledInEnabledGroup(alias) ==
    /\ alias.enabled
    /\ alias.group # None => Get(config.groups, alias.group)

\* C26 as stated: the resync text starts with unalias -a and then holds one
\* alias definition for each alias that is enabled, in no group or an enabled
\* one, and not global under a shell other than Zsh, and nothing for any
\* other alias.
CE_C26 ==
    LET out == generate_alias_script_content(config)
    IN  /\ ~out.panicked
        /\ out.text[1] = unalias_all_str
        /\ \A i \in 2..Len(out.text) : out.text[i].op = "alias"
        /\ \A name \in Keys(config.aliases) :
               LET alias == Get(config.aliases, name)
               IN  IF EnabledInEnabledGroup(alias) /\ ~(alias.global /\ shell # "Zsh")
                   THEN StatementsFor(out.text, name) = <<add_alias_str(name, alias)>>
                   ELSE StatementsFor(out.text, name) = <<>>

Refused(name, global) == (global /\ shell # "Zsh") \/ name \in InvalidNames

\* the failure of a request turned down on sight
Refusal(global) ==
    Failure(IF global /\ shell # "Zsh" THEN "UnsupportedGlobalAlias" ELSE "InvalidAliasName")

\* C28, amended: a global alias under a shell other than Zsh is refused with
\* UnsupportedGlobalAlias, otherwise a name with white space or '=' with
\* InvalidAliasName, whatever the group asked for and the confirmation
\* answers (the command and the disabled flag are held fixed), and the
\* Config is unchanged (so the name is an alias afterwards only if it was one
\* before).
Thm_C28 ==
    \A name \in AliasNames \cup InvalidNames, global \in BOOLEAN :
        Refused(name, global) =>
            \A group \in GroupArgs, overwrite \in BOOLEAN, create_group \in BOOLEAN :
                LET r == handle_add(config, name, "c1", group, FALSE, global, shell,
                                    overwrite, create_group)
                IN  r.res = Refusal(global) /\ r.config = config

\* a global alias was refused under a shell other than Zsh while the Config
\* holds an alias
Wit_C28 ==
    /\ last.op = "handle_add_alias"
    /\ last.res = Failure("UnsupportedGlobalAlias")
    /\ shell # "Zsh"
    /\ config.aliases # <<>>

\* C28 as stated: the same refusals, the Config unchanged, and no alias of
\* the requested name afterwards.
CE_C28 ==
    \A name \in AliasNames \cup InvalidNames, global \in BOOLEAN :
        Refused(name, global) =>
            \A group \in GroupArgs, overwrite \in BOOLEAN, create_group \in BOOLEAN :
                LET r == handle_add(config, name, "c1", group, FALSE, global, shell,
                                    overwrite, create_group)
                IN  /\ r.res = Refusal(global)
                    /\ r.config = config
                    /\ ~ContainsKey(r.config.aliases, name)

GroupInGroup(spec) ==
    \E i \in DOMAIN spec :
        /\ spec[i].val.kind = "Group"
        /\ \E j \in DOMAIN spec[i].val.aliases : spec[i].val.aliases[j].val.kind = "Group"

\* C30: decoding a file in which a group entry holds a group entry gives no
\* Config: the decoder panics, and the Config is still the one constructed
\* before the load, with neither the nested group nor anything else of the
\* file in it.
Thm_C30 ==
    (last.op = "load_config" /\ GroupInGroup(last.input))
        => (last.res = Panic("nested groups are not supported") /\ config = ConfigNew)

\* a file with an alias entry and, after it, a group holding a group was loaded
Wit_C30 ==
    /\ last.op = "load_config"
    /\ Len(last.input) = 2
    /\ last.input[1].val.kind = "Simple"
    /\ GroupInGroup(last.input)

\* what the core operations return on cfg, for every argument
CoreOutcomes(cfg) ==
    {add_alias(cfg, name, alias) : name \in AliasNames, alias \in AliasArgs}
        \cup {add_group(cfg, name, enabled) : name \in GroupNames, enabled \in BOOLEAN}
        \cup {edit_alias(cfg, name, alias) : name \in AliasNames, alias \in AliasArgs}
        \cup {move_alias(cfg, name, group) : name \in AliasNames, group \in GroupArgs}
        \cup {remove_alias(cfg, name) : name \in AliasNames}
        \cup {remove_group(cfg, name) : name \in GroupNames}
        \cup {rename_alias(cfg, old, new) : old \in AliasNames, new \in AliasNames}
        \cup {rename_group(cfg, old, new) : old \in GroupNames, new \in GroupNames}
        \cup {enable_alias(cfg, name) : name \in AliasNames}
        \cup {enable_group(cfg, name) : name \in GroupNames}
        \cup {disable_alias(cfg, name) : name \in AliasNames}
        \cup {disable_group(cfg, name) : name \in GroupNames}
        \cup {sort_aliases_in_group(cfg, group) : group \in GroupArgs}

\* C31: on every Config reachable through the core operations, a core
\* operation that returns a failure returns the Config it was given.
CE_C31 ==
    \A r \in CoreOutcomes(config) : r.res.kind = "Err" => r.config = config

\* how many times a call occurs in a sequence of calls
Count(calls, what) == Cardinality({i \in DOMAIN calls : calls[i].call = what})

CoreCalls == {"add_alias", "add_group", "move_alias", "edit_alias"}

\* one handler run, its calls and its outcome r: each confirmation at most
\* once, a core operation a second time only after its first call failed and
\* never a third time, and a failed second call ends the run with an error
BoundedRecovery(calls, r) ==
    /\ Count(calls, "prompt_overwrite_existing_alias") <= 1
    /\ Count(calls, "prompt_create_non_existent_group") <= 1
    /\ \A what \in CoreCalls : Count(calls, what) <= 2
    /\ \A i, j \in DOMAIN calls :
           (i < j /\ calls[i].call = calls[j].call) =>
               /\ ~calls[i].ok
               /\ ~calls[j].ok => (j = Len(calls) /\ r.res.kind = "Err")

\* C32: every run of the add, move and edit handlers, whatever the request
\* and the confirmation answers, invokes each confirmation at most once and
\* retries a failed core operation at most once; when the retry fails the
\* run ends there with an error.
Thm_C32 ==
    /\ \A name \in AliasNames, group \in GroupArgs, overwrite \in BOOLEAN, create_group \in BOOLEAN :
           LET alias == AliasNew("c2", group, TRUE, FALSE)
           IN  BoundedRecovery(
                   handle_add_alias_calls(config, name, alias, overwrite, create_group),
                   handle_add_alias(config, name, alias, overwrite, create_group))
    /\ \A name \in AliasNames, group \in GroupArgs, create_group \in BOOLEAN :
           BoundedRecovery(handle_move_calls(config, name, group, create_group),
                           handle_move(config, name, group, create_group))
    /\ \A name \in AliasNames, group \in GroupArgs \cup {NotGiven}, create_group \in BOOLEAN :
           BoundedRecovery(
               handle_edit_calls(config, name, "c2", FALSE, FALSE, group, create_group),
               handle_edit(config, name, "c2", FALSE, FALSE, group, create_group))

\* an overwrite whose move was retried after the group's creation was
\* declined, and failed again: the handler returned that failure and the
\* Config it was given
Wit_C32 ==
    /\ last.op = "handle_add_alias"
    /\ last.res = Failure("GroupDoesNotExist")
    /\ ~last.altered
    /\ \E name \in Keys(config.aliases), group \in GroupNames \ Keys(config.groups) :
           LET calls == handle_overwrite_existing_alias_calls(
                            config, name, AliasNew("c2", group, TRUE, FALSE), TRUE, FALSE)
           IN  Count(calls, "move_alias") = 2 /\ ~calls[Len(calls)].ok

\* C33: on the empty Config and on every Config a successful decode gives,
\* and after any handlers run from there with any confirmation answers, no
\* handler has ended in a programming-error abort, and
\* generate_alias_script_content of the Config does not abort either: every
\* group an alias names is a key of Config.groups.
Thm_C33 ==
    /\ last.res.kind # "Panic"
    /\ ~generate_alias_script_content(config).panicked
    /\ \A i \in DOMAIN config.aliases :
           config.aliases[i].val.group # None =>
               ContainsKey(config.groups, config.aliases[i].val.group)

\* a handler has put an alias into a group it created, on a decoded Config
\* that held a group with a member
Wit_C33 ==
    /\ last.op = "handle_edit"
    /\ last.res.kind = "Command"
    /\ Len(config.groups) = 2
    /\ \E i \in DOMAIN config.aliases :
           config.aliases[i].val.group = config.groups[2].key

\* C34: when the shell is not Zsh, no invocation leaves under some name a
\* global alias where there was no global alias of that name before it.
CE_C34 ==
    [][shell # "Zsh" =>
          \A i \in DOMAIN config'.aliases :
              config'.aliases[i].val.global =>
                  /\ ContainsKey(config.aliases, config'.aliases[i].key)
                  /\ Get(config.aliases, config'.aliases[i].key).global]_vars

\* the place of an alias's scope in the listing: the ungrouped aliases, then
\* the groups in the order of Config.groups
ScopeRank(name) ==
    LET group == Get(config.aliases, name).group
    IN  IF group = None THEN 0 ELSE IndexOf(config.groups, group)

\* the aliases the full resync defines: enabled, in no group or an enabled one
Defined(name) ==
    LET alias == Get(config.aliases, name)
    IN  alias.enabled /\ (alias.group = None \/ Get(config.groups, alias.group))

CE_C36 == last.res.kind = "Command" => Len(last.res.cmd) >= 1

\* the alias entries of a file: the top-level entries that are no group, and
\* the entries of every group
RECURSIVE AliasEntries(_)
AliasEntries(spec) ==
    IF spec = <<>>
    THEN 0
    ELSE (IF Head(spec).val.kind = "Group" THEN Len(Head(spec).val.aliases) ELSE 1)
             + AliasEntries(Tail(spec))

\* C37: loading a file without nested groups either fails or gives a Config
\* with as many aliases as the file has alias entries.
CE_C37 ==
    (last.op = "load_config" /\ ~GroupInGroup(last.input)) =>
        \/ last.res.kind \in {"Err", "Panic"}
        \/ Len(config.aliases) = AliasEntries(last.input)

\* after is before with one entry taken out, the others in their order
RemovedOne(before, after) ==
    \E i \in DOMAIN before :
        after = [j \in 1..(Len(before) - 1) |-> IF j < i THEN before[j] ELSE before[j + 1]]

\* after is before with one entry added at the end
AppendedOne(before, after) ==
    /\ Len(after) = Len(before) + 1
    /\ SubSeq(after, 1, Len(before)) = before

StatementNames(res) == {res.cmd[i].name : i \in DOMAIN res.cmd}

\* disable_alias then enable_alias of an enabled alias: both return and the
\* Config is the one before
AliasRoundTrip(name) ==
    LET d == disable_alias(config, name)
        e == enable_alias(d.config, name)
    IN  IsOk(d) /\ IsOk(e) /\ e.config = config

\* disable_group then enable_group of an enabled group: both return, the
\* Config is the one before, and the second defines the names the first
\* unaliased
GroupRoundTrip(name) ==
    LET d == disable_group(config, name)
        e == enable_group(d.config, name)
    IN  /\ IsOk(d) /\ IsOk(e)
        /\ e.config = config
        /\ StatementNames(e.res) = StatementNames(d.res)

\* C39: on an enabled alias disable_alias followed by enable_alias, and on an
\* enabled group disable_group followed by enable_group, restore the Config
\* exactly; for the group the names defined by the second Command are the
\* names unaliased by the first.
CE_C39 ==
    /\ \A name \in Keys(config.aliases) \cap AliasNames :
           Get(config.aliases, name).enabled => AliasRoundTrip(name)
    /\ \A name \in Keys(config.groups) \cap GroupNames :
           Get(config.groups, name) => GroupRoundTrip(name)

====
